---- MODULE Spec2Model ----
(***************************************************************************)
(* Model of src/omero/plugins/transfer.py: the "transfer" CLI plugin        *)
(* (TransferControl.pack / TransferControl.unpack under gateway_required). *)
(*                                                                         *)
(* Paths are sequences of one-character strings, so that str.split,        *)
(* str.strip and os.path.join are computed and not assumed.  Python dicts  *)
(* (insertion ordered) are sequences of records [k, v].  An identifier     *)
(* string "Kind:<n>" is the pair <<Kind, n>>.                              *)
(***************************************************************************)
EXTENDS Integers, Sequences, FiniteSets, TLC

VARIABLES
    pc,            \* position of the running invocation
    cmd,           \* "none" | "pack" | "unpack"
    client,        \* self.client
    gateway,       \* self.gateway
    sessionOpened, \* history: self.ctx.conn returned a client
    closeCount,    \* history: number of gateway.close(hard=False) calls
    outcome,       \* "none" | "returned" | "raised": how the body ended
    error,         \* name of the exception that ended the body, or "none"
    object,        \* pack: kind of args.object
    io,            \* pack: side effects performed so far
    toCopy,        \* pack: entries of path_id_dict still to copy
    ln_s,          \* unpack: args.ln_s_import
    ome,           \* unpack: the parsed graph (mutated by _create_image_map)
    ome0,          \* history: the graph as parsed by from_xml
    src_img_map,   \* unpack: result of _create_image_map
    filelist,      \* unpack: result of _create_image_map
    idx,           \* unpack: files of filelist already taken by the loop
    dest_map,      \* unpack: dest_map of _import_files
    img_map,       \* unpack: result of _make_image_map
    passed,        \* history: the calls of populate_omero, with their arguments
    server,        \* destination service: images as [id, cpath]
    nextId,        \* destination service: next image id
    log,           \* history: import invocations and destination queries
    stageLog,      \* history: stage events of the unpack
    rk,            \* reconciler harness: position
    rsrc,          \* reconciler harness: source_map
    rdst,          \* reconciler harness: dest_map
    rout           \* reconciler harness: result of _make_image_map

vars == <<pc, cmd, client, gateway, sessionOpened, closeCount, outcome, error,
          object, io, toCopy, ln_s, ome, ome0, src_img_map, filelist, idx,
          dest_map, img_map, passed, server, nextId, log, stageLog,
          rk, rsrc, rdst, rout>>

sessionVars == <<client, gateway, sessionOpened, closeCount>>
packVars    == <<object, io, toCopy>>
unpackVars  == <<ln_s, ome, ome0, src_img_map, filelist, idx, dest_map,
                 img_map, passed, server, nextId, log, stageLog>>
harnessVars == <<rk, rsrc, rdst, rout>>

None == "None"

(***************************************************************************)
(* Bounds of the model.                                                    *)
(***************************************************************************)
MaxAnns   == 3   \* annotation entries in a parsed graph
MaxSeries == 2   \* images one import of one file creates
MaxFiles  == 2   \* entries of the path_id_dict populate_xml returns
MaxKeyLen == 5   \* length of the keys the reconciler harness enumerates

(***************************************************************************)
(* Strings.                                                                *)
(***************************************************************************)
Marker == <<"/", ".", "/">>

Last(s) == s[Len(s)]

OccursAt(s, sep, i) ==
    i >= 1 /\ i + Len(sep) - 1 <= Len(s) /\ SubSeq(s, i, i + Len(sep) - 1) = sep

\* str.find(sep, from): the first index >= from at which sep occurs, 0 if none
Find(s, sep, from) ==
    LET hits == {i \in from..Len(s) : OccursAt(s, sep, i)}
    IN  IF hits = {} THEN 0 ELSE CHOOSE i \in hits : \A j \in hits : i <= j

RECURSIVE SplitFrom(_, _, _)
SplitFrom(s, sep, from) ==
    LET i == Find(s, sep, from)
    IN  IF i = 0 THEN <<SubSeq(s, from, Len(s))>>
        ELSE <<SubSeq(s, from, i - 1)>> \o SplitFrom(s, sep, i + Len(sep))

\* str.split(sep): the pieces between the occurrences of sep, found left to
\* right without overlap
Split(s, sep) == SplitFrom(s, sep, 1)

RECURSIVE LStrip(_, _)
LStrip(s, c) == IF s # <<>> /\ s[1] = c THEN LStrip(Tail(s), c) ELSE s

RECURSIVE RStrip(_, _)
RStrip(s, c) ==
    IF s # <<>> /\ Last(s) = c THEN RStrip(SubSeq(s, 1, Len(s) - 1), c) ELSE s

\* str.strip('/')
Strip(s, c) == RStrip(LStrip(s, c), c)

\* os.path.join(a, b) on POSIX
Join2(a, b) ==
    IF b # <<>> /\ b[1] = "/" THEN b
    ELSE IF a = <<>> \/ Last(a) = "/" THEN a \o b
    ELSE a \o <<"/">> \o b

OsPathJoin(a, b, c) == Join2(Join2(a, b), c)

(***************************************************************************)
(* Lists and dicts.                                                        *)
(***************************************************************************)
RECURSIVE InsertSorted(_, _)
InsertSorted(x, s) ==
    IF s = <<>> THEN <<x>>
    ELSE IF x <= s[1] THEN <<x>> \o s
    ELSE <<s[1]>> \o InsertSorted(x, Tail(s))

RECURSIVE Sorted(_)
Sorted(s) == IF s = <<>> THEN <<>> ELSE InsertSorted(s[1], Sorted(Tail(s)))

IsSorted(s) == \A i \in 1..(Len(s) - 1) : s[i] <= s[i + 1]

Range(s) == {s[i] : i \in 1..Len(s)}

\* the lists that enumerate the finite set S once each, in any order
Orderings(S) ==
    {f \in [1..Cardinality(S) -> S] : \A i, j \in 1..Cardinality(S) : f[i] = f[j] => i = j}

DictKeys(d) == {d[i].k : i \in 1..Len(d)}

DictGet(d, key) == (CHOOSE i \in 1..Len(d) : d[i].k = key) \* index of key
DictVal(d, key) == d[DictGet(d, key)].v

\* d[key] = val
DictSet(d, key, val) ==
    IF key \in DictKeys(d)
    THEN [i \in 1..Len(d) |-> IF d[i].k = key THEN [k |-> key, v |-> val] ELSE d[i]]
    ELSE Append(d, [k |-> key, v |-> val])

\* defaultdict(list): d[key] when present, an empty list otherwise
DefaultGet(d, key) == IF key \in DictKeys(d) THEN DictVal(d, key) ELSE <<>>

(***************************************************************************)
(* Inputs: paths, the transfer graph, the destination service.             *)
(***************************************************************************)
PA == <<"/", "a", "/", ".", "/", "f">>   \* "/a/./f"
PB == <<"/", "b", "/", ".", "/", "f">>   \* "/b/./f": the file of PA under another prefix
PC == <<"/", "a", "/", ".", "/", "g">>   \* "/a/./g"

Folder == <<"/", "s">>                   \* the directory the packet is unzipped into

Sentinel(n, img, path) ==
    [id |-> <<"Annotation", n>>, namespace |-> <<"Image", img>>, value |-> path]

RealAnn(n) ==
    [id |-> <<"Annotation", n>>, namespace |-> <<"ns", 0>>, value |-> <<"v">>]

AnnEntries ==
    { Sentinel(-1, 501, PA), Sentinel(-2, 502, PA), Sentinel(-3, 501, PB),
      Sentinel(-4, 502, PC), RealAnn(0), RealAnn(1) }

SeqsUpTo(S, n) == UNION {[1..m -> S] : m \in 0..n}

Reverse(s) == [i \in 1..Len(s) |-> s[Len(s) + 1 - i]]

RefsOf(anns) == [i \in 1..Len(anns) |-> [id |-> anns[i].id]]

\* a graph: the annotation collection and two Image records, which reference
\* the annotations of the collection
GraphOf(anns) ==
    [structured_annotations |-> anns,
     images |-> << [annotation_ref |-> RefsOf(anns)],
                   [annotation_ref |-> Reverse(RefsOf(anns))] >>]

Graphs == {GraphOf(anns) : anns \in SeqsUpTo(AnnEntries, MaxAnns)}

\* int(x.split(":")[-1]) of an identifier string "Kind:<n>"
IdInt(id) == id[2]

(***************************************************************************)
(* _create_image_map                                                       *)
(***************************************************************************)
\* the file name alone: the suffix after the last "/"
NormKeyBasename(k) == Last(Split(k, <<"/">>))

\* k.split("/./")[-1]
NormKey(k) == Last(Split(k, Marker))

IsSentinel(ann) == IdInt(ann.id) < 0

\* a filter on the identifier being non-zero keeps the negative ones
IsKeptNonZero(x) == IdInt(x.id) # 0

\* int(x.id.split(":")[-1]) > 0
IsKept(x) == IdInt(x.id) > 0

RECURSIVE CollectImgMap(_, _)
CollectImgMap(anns, d) ==
    IF anns = <<>> THEN d
    ELSE LET ann == Head(anns)
         IN  IF IsSentinel(ann)
             THEN CollectImgMap(Tail(anns),
                      DictSet(d, ann.value,
                              Append(DefaultGet(d, ann.value), IdInt(ann.namespace))))
             ELSE CollectImgMap(Tail(anns), d)

RECURSIVE CollectFiles(_)
CollectFiles(anns) ==
    IF anns = <<>> THEN <<>>
    ELSE LET ann == Head(anns)
         IN  IF IsSentinel(ann)
             THEN <<NormKey(ann.value)>> \o CollectFiles(Tail(anns))
             ELSE CollectFiles(Tail(anns))

\* the collected list as it is, without set()
FileListsNoDedup(collected) == {collected}

\* list(set(filelist)): every order of the distinct entries
FileLists(collected) == Orderings(Range(collected))

SortValues(d) == [i \in 1..Len(d) |-> [k |-> d[i].k, v |-> Sorted(d[i].v)]]

StripGraph(g) ==
    [structured_annotations |-> SelectSeq(g.structured_annotations, IsKept),
     images |-> [i \in 1..Len(g.images) |->
                    [annotation_ref |-> SelectSeq(g.images[i].annotation_ref, IsKept)]]]

(***************************************************************************)
(* _import_files, _get_image_ids                                           *)
(***************************************************************************)
ImportPath(folder, filepath) == OsPathJoin(folder, <<".">>, filepath)

PathQuery(file_path) == Strip(file_path, "/")

\* the rows the projection returns, in any order
QueryResults(srv, file_path) ==
    Orderings({im.id : im \in {x \in srv : x.cpath = PathQuery(file_path)}})

ImageIds(results) == Sorted(results)

\* the destination records the images an import creates under the client path
Imported(first, k, dest_path) ==
    {[id |-> first + j, cpath |-> Strip(dest_path, "/")] : j \in 0..(k - 1)}

(***************************************************************************)
(* _make_image_map                                                         *)
(***************************************************************************)
RECURSIVE Regroup(_, _)
Regroup(d, acc) ==
    IF d = <<>> THEN acc
    ELSE LET newkey == NormKey(Head(d).k)
         IN  Regroup(Tail(d),
                     DictSet(acc, newkey, DefaultGet(acc, newkey) \o Head(d).v))

\* the (source id, destination id) assignments of the two loops, in order
RECURSIVE PairUp(_, _)
PairUp(src_dict, dest_dict) ==
    IF src_dict = <<>> THEN <<>>
    ELSE LET src_v  == Head(src_dict).v
             dest_v == DefaultGet(dest_dict, Head(src_dict).k)
         IN  [count \in 1..Len(src_v) |-> <<src_v[count], dest_v[count]>>]
             \o PairUp(Tail(src_dict), dest_dict)

\* dest_v[count] with count beyond the end of dest_v
IndexErrorIn(src_dict, dest_dict) ==
    \E i \in 1..Len(src_dict) :
        Len(src_dict[i].v) > Len(DefaultGet(dest_dict, src_dict[i].k))

RECURSIVE Assign(_, _)
Assign(pairs, m) ==
    IF pairs = <<>> THEN m
    ELSE Assign(Tail(pairs), (<<"Image", Head(pairs)[1]>> :> Head(pairs)[2]) @@ m)

MakeImageMap(source_map, dest_m) ==
    LET src_dict  == Regroup(source_map, <<>>)
        dest_dict == Regroup(dest_m, <<>>)
    IN  [src_dict  |-> src_dict,    \* as printed before the pairing loop
         dest_dict |-> dest_dict,
         raised    |-> IndexErrorIn(src_dict, dest_dict),
         imgmap    |-> IF IndexErrorIn(src_dict, dest_dict) THEN <<>>
                       ELSE Assign(PairUp(src_dict, dest_dict), <<>>)]

(***************************************************************************)
(* Initial state: no invocation has started.                               *)
(***************************************************************************)
NoIO == [staging |-> FALSE, repoQueried |-> FALSE, serialized |-> FALSE,
         copied |-> 0, archived |-> FALSE, removed |-> FALSE]

EmptyGraph == [structured_annotations |-> <<>>, images |-> <<>>]

NoResult == [src_dict |-> <<>>, dest_dict |-> <<>>, raised |-> FALSE, imgmap |-> <<>>]

Init ==
    /\ pc = "idle"
    /\ cmd = "none"
    /\ client = None
    /\ gateway = None
    /\ sessionOpened = FALSE
    /\ closeCount = 0
    /\ outcome = "none"
    /\ error = "none"
    /\ object = "none"
    /\ io = NoIO
    /\ toCopy = 0
    /\ ln_s = FALSE
    /\ ome = EmptyGraph
    /\ ome0 = EmptyGraph
    /\ src_img_map = <<>>
    /\ filelist = <<>>
    /\ idx = 0
    /\ dest_map = <<>>
    /\ img_map = <<>>
    /\ passed = <<>>
    /\ server = {}
    /\ nextId = 9001
    /\ log = <<>>
    /\ stageLog = <<>>
    /\ rk = "off"
    /\ rsrc = <<>>
    /\ rdst = <<>>
    /\ rout = NoResult

(***************************************************************************)
(* gateway_required                                                        *)
(***************************************************************************)
\* without try/finally an exception leaves the wrapper at once
OnRaiseNoFinally == "done"

\* where an exception raised inside the wrapped function goes: try/finally
OnRaise == "finally"

Raise(name) ==
    /\ pc' = OnRaise
    /\ outcome' = "raised"
    /\ error' = name

Return ==
    /\ pc' = "finally"
    /\ outcome' = "returned"
    /\ error' = "none"

ObjectKinds == {"Image", "Dataset", "Project", "Screen"}

\* _wrapper up to the call of func: self.ctx.conn and the BlitzGateway
Invoke ==
    /\ pc = "idle"
    /\ \E c \in {"pack", "unpack"}, kind \in ObjectKinds, l \in BOOLEAN, ok \in BOOLEAN :
        /\ cmd' = c
        /\ object' = IF c = "pack" THEN kind ELSE object
        /\ ln_s' = IF c = "unpack" THEN l ELSE ln_s
        /\ c = "pack" => l = FALSE
        /\ c = "unpack" => kind = "Project"
        /\ IF ok
           THEN /\ client' = "client"
                /\ gateway' = "gateway"
                /\ sessionOpened' = TRUE
                /\ pc' = c
                /\ UNCHANGED <<outcome, error>>
           ELSE /\ pc' = "done"
                /\ outcome' = "raised"
                /\ error' = "ConnectionError"
                /\ UNCHANGED <<client, gateway, sessionOpened>>
    /\ UNCHANGED <<closeCount, io, toCopy, ome, ome0, src_img_map, filelist, idx,
                   dest_map, img_map, passed, server, nextId, log, stageLog>>
    /\ UNCHANGED harnessVars

\* the finally clause of _wrapper
Finally ==
    /\ pc = "finally"
    /\ IF gateway # None
       THEN /\ closeCount' = closeCount + 1
            /\ gateway' = None
            /\ client' = None
       ELSE UNCHANGED <<closeCount, gateway, client>>
    /\ pc' = "done"
    /\ UNCHANGED <<cmd, sessionOpened, outcome, error>>
    /\ UNCHANGED <<packVars, unpackVars, harnessVars>>

(***************************************************************************)
(* __pack, _get_path_to_repo, _copy_files                                  *)
(***************************************************************************)
\* no check of the kind of the root object
IsSupportedAny(kind) == TRUE

IsSupported(kind) == kind \in {"Image", "Dataset", "Project"}

PackCheck ==
    /\ pc = "pack"
    /\ IF IsSupported(object)
       THEN /\ pc' = "mkdir"
            /\ UNCHANGED <<outcome, error>>
       ELSE Return
    /\ UNCHANGED <<cmd, sessionVars, packVars, unpackVars, harnessVars>>

PackMkdir ==
    /\ pc = "mkdir"
    /\ \/ /\ io' = [io EXCEPT !.staging = TRUE]
          /\ pc' = "repo"
          /\ UNCHANGED <<outcome, error>>
       \/ /\ Raise("OSError")
          /\ UNCHANGED io
    /\ UNCHANGED <<cmd, sessionVars, object, toCopy, unpackVars, harnessVars>>

\* self._get_path_to_repo()[0]: the list of managed repositories may be empty
PackRepo ==
    /\ pc = "repo"
    /\ io' = [io EXCEPT !.repoQueried = TRUE]
    /\ \E mrepos \in 0..1 :
          IF mrepos > 0
          THEN /\ pc' = "xml"
               /\ UNCHANGED <<outcome, error>>
          ELSE Raise("IndexError")
    /\ UNCHANGED <<cmd, sessionVars, object, toCopy, unpackVars, harnessVars>>

PackXml ==
    /\ pc = "xml"
    /\ io' = [io EXCEPT !.serialized = TRUE]
    /\ \/ /\ \E n \in 0..MaxFiles : toCopy' = n
          /\ pc' = "copy"
          /\ UNCHANGED <<outcome, error>>
       \/ /\ Raise("SerializerError")
          /\ UNCHANGED toCopy
    /\ UNCHANGED <<cmd, sessionVars, object, unpackVars, harnessVars>>

\* one iteration of the loop of _copy_files
PackCopyFile ==
    /\ pc = "copy"
    /\ toCopy > 0
    /\ \/ /\ io' = [io EXCEPT !.copied = @ + 1]
          /\ toCopy' = toCopy - 1
          /\ UNCHANGED <<pc, outcome, error>>
       \/ /\ Raise("OSError")
          /\ UNCHANGED <<io, toCopy>>
    /\ UNCHANGED <<cmd, sessionVars, object, unpackVars, harnessVars>>

PackZip ==
    /\ pc = "copy"
    /\ toCopy = 0
    /\ \/ /\ io' = [io EXCEPT !.archived = TRUE]
          /\ pc' = "rmtree"
          /\ UNCHANGED <<outcome, error>>
       \/ /\ Raise("OSError")
          /\ UNCHANGED io
    /\ UNCHANGED <<cmd, sessionVars, object, toCopy, unpackVars, harnessVars>>

PackCleanup ==
    /\ pc = "rmtree"
    /\ \/ /\ io' = [io EXCEPT !.removed = TRUE]
          /\ Return
       \/ /\ Raise("OSError")
          /\ UNCHANGED io
    /\ UNCHANGED <<cmd, sessionVars, object, toCopy, unpackVars, harnessVars>>

(***************************************************************************)
(* __unpack                                                                *)
(***************************************************************************)
Ev(stage, what) == <<stage, what>>

\* shutil.unpack_archive, from_xml and _create_image_map
UnpackExtract ==
    /\ pc = "unpack"
    /\ \/ /\ \E g \in Graphs :
               \E fl \in FileLists(CollectFiles(g.structured_annotations)) :
                  /\ ome0' = g
                  /\ ome' = StripGraph(g)
                  /\ src_img_map' = SortValues(CollectImgMap(g.structured_annotations, <<>>))
                  /\ filelist' = fl
          /\ stageLog' = stageLog \o <<Ev("Extracted", "start"), Ev("Extracted", "done")>>
          /\ pc' = "import"
          /\ UNCHANGED <<outcome, error>>
       \/ /\ Raise("ReadError")
          /\ stageLog' = stageLog \o <<Ev("Extracted", "start"), Ev("Extracted", "raised")>>
          /\ UNCHANGED <<ome, ome0, src_img_map, filelist>>
    /\ UNCHANGED <<cmd, sessionVars, packVars, ln_s, idx, dest_map, img_map, passed,
                   server, nextId, log, harnessVars>>

\* the call of _import_files: cli.loadplugins, dest_map = {}
ImportStart ==
    /\ pc = "import"
    /\ dest_map' = <<>>
    /\ idx' = 0
    /\ stageLog' = Append(stageLog, Ev("Imported", "start"))
    /\ pc' = "invoke"
    /\ UNCHANGED <<cmd, sessionVars, packVars, outcome, error, ln_s, ome, ome0,
                   src_img_map, filelist, img_map, passed, server, nextId, log,
                   harnessVars>>

ImportEvent(path, res) ==
    [op |-> "import", path |-> path,
     transfer |-> IF ln_s THEN "ln_s" ELSE "copy", result |-> res]

QueryEvent(path, ids) ==
    [op |-> "query", path |-> path, transfer |-> "none", result |-> ids]

\* cli.invoke(['import', dest_path, ...]) for the next file of filelist.  The
\* invocation succeeds, or fails and returns (its result is not looked at), or
\* raises.
ImportInvoke ==
    /\ pc = "invoke"
    /\ idx < Len(filelist)
    /\ LET dest_path == ImportPath(Folder, filelist[idx + 1])
       IN  \/ \E k \in 1..MaxSeries :
                 /\ server' = server \cup Imported(nextId, k, dest_path)
                 /\ nextId' = nextId + k
                 /\ log' = Append(log, ImportEvent(dest_path, "ok"))
                 /\ pc' = "query"
                 /\ UNCHANGED <<outcome, error, stageLog>>
           \/ /\ log' = Append(log, ImportEvent(dest_path, "failed"))
              /\ pc' = "query"
              /\ UNCHANGED <<server, nextId, outcome, error, stageLog>>
           \/ /\ log' = Append(log, ImportEvent(dest_path, "raised"))
              /\ Raise("ImportError")
              /\ stageLog' = Append(stageLog, Ev("Imported", "raised"))
              /\ UNCHANGED <<server, nextId>>
    /\ UNCHANGED <<cmd, sessionVars, packVars, ln_s, ome, ome0, src_img_map, filelist,
                   idx, dest_map, img_map, passed, harnessVars>>

\* img_ids = self._get_image_ids(dest_path); dest_map[dest_path] = img_ids
ImportQuery ==
    /\ pc = "query"
    /\ LET dest_path == ImportPath(Folder, filelist[idx + 1])
       IN  \E results \in QueryResults(server, dest_path) :
              /\ dest_map' = DictSet(dest_map, dest_path, ImageIds(results))
              /\ log' = Append(log, QueryEvent(dest_path, ImageIds(results)))
    /\ idx' = idx + 1
    /\ pc' = "invoke"
    /\ UNCHANGED <<cmd, sessionVars, packVars, outcome, error, ln_s, ome, ome0,
                   src_img_map, filelist, img_map, passed, server, nextId, stageLog,
                   harnessVars>>

\* the loop of _import_files is over: return dest_map
ImportReturn ==
    /\ pc = "invoke"
    /\ idx = Len(filelist)
    /\ stageLog' = Append(stageLog, Ev("Imported", "done"))
    /\ pc' = "match"
    /\ UNCHANGED <<cmd, sessionVars, packVars, outcome, error, ln_s, ome, ome0,
                   src_img_map, filelist, idx, dest_map, img_map, passed, server,
                   nextId, log, harnessVars>>

\* img_map = self._make_image_map(src_img_map, dest_img_map)
Reconcile ==
    /\ pc = "match"
    /\ LET r == MakeImageMap(src_img_map, dest_map)
       IN  IF r.raised
           THEN /\ Raise("IndexError")
                /\ stageLog' = stageLog \o
                       <<Ev("Reconciled", "start"), Ev("Reconciled", "raised")>>
                /\ UNCHANGED img_map
           ELSE /\ img_map' = r.imgmap
                /\ stageLog' = stageLog \o
                       <<Ev("Reconciled", "start"), Ev("Reconciled", "done")>>
                /\ pc' = "populate"
                /\ UNCHANGED <<outcome, error>>
    /\ UNCHANGED <<cmd, sessionVars, packVars, ln_s, ome, ome0, src_img_map, filelist,
                   idx, dest_map, passed, server, nextId, log, harnessVars>>

\* populate_omero(ome, img_map, self.gateway)
Populate ==
    /\ pc = "populate"
    /\ passed' = Append(passed, [ome |-> ome, img_map |-> img_map, gateway |-> gateway])
    /\ \/ /\ Return
          /\ stageLog' = stageLog \o
                 <<Ev("Materialized", "start"), Ev("Materialized", "done")>>
       \/ /\ Raise("KeyError")
          /\ stageLog' = stageLog \o
                 <<Ev("Materialized", "start"), Ev("Materialized", "raised")>>
    /\ UNCHANGED <<cmd, sessionVars, packVars, ln_s, ome, ome0, src_img_map, filelist,
                   idx, dest_map, img_map, server, nextId, log, harnessVars>>

Next ==
    \/ Invoke
    \/ Finally
    \/ PackCheck
    \/ PackMkdir
    \/ PackRepo
    \/ PackXml
    \/ PackCopyFile
    \/ PackZip
    \/ PackCleanup
    \/ UnpackExtract
    \/ ImportStart
    \/ ImportInvoke
    \/ ImportQuery
    \/ ImportReturn
    \/ Reconcile
    \/ Populate

Spec == Init /\ [][Next]_vars

(***************************************************************************)
(* _make_image_map on its own: one source key and one destination key,     *)
(* each with one identifier.                                               *)
(***************************************************************************)
KeyAlphabet == {"/", ".", "f"}

\* "/repo/2020/01/img.tif"
RepoKey == <<"/", "r", "e", "p", "o", "/", "2", "0", "2", "0", "/", "0", "1", "/",
             "i", "m", "g", ".", "t", "i", "f">>

\* "/repo/./img.tif"
MarkedRepoKey == <<"/", "r", "e", "p", "o", "/", ".", "/", "i", "m", "g", ".", "t", "i", "f">>

\* "/staging/./img.tif"
StagingKey == <<"/", "s", "t", "a", "g", "i", "n", "g", "/", ".", "/",
                "i", "m", "g", ".", "t", "i", "f">>

\* "img.tif"
ImgTif == <<"i", "m", "g", ".", "t", "i", "f">>

SourceKeys == SeqsUpTo(KeyAlphabet, MaxKeyLen) \cup {RepoKey, MarkedRepoKey}

DestKeys ==
    { StagingKey,
      <<"/", "s", "/", ".", "/", "f">>,             \* "/s/./f"
      <<"/", "s", "/", ".", "/", ".", "/", "f">>,   \* "/s/././f"
      <<"/", "s", "/", ".", "/">>,                  \* "/s/./"
      <<"f">> }

InitReconcile ==
    /\ pc = "idle"
    /\ cmd = "none"
    /\ client = None
    /\ gateway = None
    /\ sessionOpened = FALSE
    /\ closeCount = 0
    /\ outcome = "none"
    /\ error = "none"
    /\ object = "none"
    /\ io = NoIO
    /\ toCopy = 0
    /\ ln_s = FALSE
    /\ ome = EmptyGraph
    /\ ome0 = EmptyGraph
    /\ src_img_map = <<>>
    /\ filelist = <<>>
    /\ idx = 0
    /\ dest_map = <<>>
    /\ img_map = <<>>
    /\ passed = <<>>
    /\ server = {}
    /\ nextId = 9001
    /\ log = <<>>
    /\ stageLog = <<>>
    /\ rk = "input"
    /\ \E ks \in SourceKeys : rsrc = <<[k |-> ks, v |-> <<501>>]>>
    /\ \E kd \in DestKeys : rdst = <<[k |-> kd, v |-> <<9001>>]>>
    /\ rout = NoResult

ReconcileCall ==
    /\ rk = "input"
    /\ rout' = MakeImageMap(rsrc, rdst)
    /\ rk' = "done"
    /\ UNCHANGED <<rsrc, rdst>>
    /\ UNCHANGED <<pc, cmd, outcome, error, sessionVars, packVars, unpackVars>>

SpecReconcile == InitReconcile /\ [][ReconcileCall]_vars

(***************************************************************************)
(* Properties.                                                             *)
(***************************************************************************)
Happened(stage, what) == Ev(stage, what) \in Range(stageLog)

NoSentinelIn(g) ==
    /\ \A i \in 1..Len(g.structured_annotations) :
          IdInt(g.structured_annotations[i].id) >= 0
    /\ \A i \in 1..Len(g.images) :
          \A j \in 1..Len(g.images[i].annotation_ref) :
             IdInt(g.images[i].annotation_ref[j].id) >= 0

SentinelsOf(g) ==
    {g.structured_annotations[i] : i \in
        {j \in 1..Len(g.structured_annotations) : IdInt(g.structured_annotations[j].id) < 0}}

\* C1: after extraction, and in every graph handed to populate_omero, no
\* annotation entry has a negative identifier integer and no Image record
\* references a negative identifier.
C1_NoSentinelMaterialized ==
    /\ Happened("Extracted", "done") => NoSentinelIn(ome)
    /\ \A i \in 1..Len(passed) : NoSentinelIn(passed[i].ome)

C1_Witness ==
    /\ Len(passed) = 1
    /\ SentinelsOf(ome0) # {}
    /\ passed[1].ome.structured_annotations # <<>>

NotNegative(x) == IdInt(x.id) >= 0

\* C10: extraction removes exactly the entries with a negative identifier
\* integer: every entry and every reference whose identifier integer is 0 or
\* more is kept, unchanged and in the same relative order.
C10_OnlySentinelsRemoved ==
    Happened("Extracted", "done") =>
        /\ ome.structured_annotations = SelectSeq(ome0.structured_annotations, NotNegative)
        /\ Len(ome.images) = Len(ome0.images)
        /\ \A i \in 1..Len(ome0.images) :
              ome.images[i].annotation_ref =
                  SelectSeq(ome0.images[i].annotation_ref, NotNegative)

(***************************************************************************)
(* Import.                                                                 *)
(***************************************************************************)
\* the distinct files named by the sentinel values of the parsed graph
DistinctFiles == {NormKey(a.value) : a \in SentinelsOf(ome0)}

ImportsOf(path) == {i \in 1..Len(log) : log[i].op = "import" /\ log[i].path = path}

ImportedPaths == {log[i].path : i \in {j \in 1..Len(log) : log[j].op = "import"}}

IdsAt(path) == {im.id : im \in {x \in server : x.cpath = Strip(path, "/")}}

\* C7: the import operation is invoked once per distinct file of the sentinel
\* values, one file at a time; each import is followed, before the next
\* import, by the query for that file, whose ascending result is recorded in
\* dest_map under the import path; when the loop completes dest_map has
\* exactly one key per distinct file.
C7_OneImportPerFile ==
    /\ \A p \in ImportedPaths : Cardinality(ImportsOf(p)) = 1
    /\ ImportedPaths \subseteq {ImportPath(Folder, f) : f \in DistinctFiles}
    /\ \A i \in 1..Len(log) :
          /\ log[i].op = "import" <=> i % 2 = 1
          /\ (log[i].op = "import" /\ i < Len(log)) =>
                /\ log[i + 1].op = "query"
                /\ log[i + 1].path = log[i].path
          /\ (log[i].op = "import" /\ i = Len(log)) =>
                \/ pc = "query"
                \/ log[i].result = "raised"
          /\ log[i].op = "query" =>
                /\ log[i].path \in DictKeys(dest_map)
                /\ DictVal(dest_map, log[i].path) = log[i].result
                /\ IsSorted(log[i].result)
                /\ Range(log[i].result) = IdsAt(log[i].path)
                /\ Len(log[i].result) = Cardinality(IdsAt(log[i].path))
    /\ Happened("Imported", "done") =>
          /\ ImportedPaths = {ImportPath(Folder, f) : f \in DistinctFiles}
          /\ Len(log) = 2 * Cardinality(DistinctFiles)
          /\ DictKeys(dest_map) = ImportedPaths
          /\ Len(dest_map) = Cardinality(DistinctFiles)

C7_Witness ==
    /\ Happened("Imported", "done")
    /\ Cardinality(SentinelsOf(ome0)) = 3
    /\ Cardinality(DistinctFiles) = 2
    /\ \E i \in 1..Len(dest_map) : Len(dest_map[i].v) = 2

FailedImports == {i \in 1..Len(log) : log[i].op = "import" /\ log[i].result # "ok"}

\* C5: a failed import invocation aborts _import_files at once with
\* ImportFailed: no later file is imported, no query is recorded for the
\* failed file, and neither reconciliation nor materialization is reached.
C5_AbortOnImportFailure ==
    \A i \in FailedImports :
        /\ i = Len(log)
        /\ pc \in {"finally", "done"}
        /\ outcome = "raised"
        /\ ~Happened("Imported", "done")
        /\ ~Happened("Reconciled", "start")
        /\ ~Happened("Materialized", "start")

StageNo(stage) ==
    CASE stage = "Extracted" -> 1
      [] stage = "Imported" -> 2
      [] stage = "Reconciled" -> 3
      [] stage = "Materialized" -> 4

StageOf(n) ==
    CASE n = 1 -> "Extracted"
      [] n = 2 -> "Imported"
      [] n = 3 -> "Reconciled"
      [] n = 4 -> "Materialized"

\* C6: the stages run in the order Extracted, Imported, Reconciled,
\* Materialized; each starts only after the previous one completed and none is
\* entered twice; populate_omero is called at most once, with the identity map
\* reconciliation produced; after a failure in a stage no later stage is
\* entered.
C6_StrictStages ==
    /\ \A i, j \in 1..Len(stageLog) :
          /\ i < j => StageNo(stageLog[i][1]) <= StageNo(stageLog[j][1])
          /\ (i # j /\ stageLog[i][2] = "start" /\ stageLog[j][2] = "start")
                => stageLog[i][1] # stageLog[j][1]
    /\ \A j \in 1..Len(stageLog) :
          (stageLog[j][2] = "start" /\ StageNo(stageLog[j][1]) > 1) =>
              \E i \in 1..(j - 1) :
                  stageLog[i] = Ev(StageOf(StageNo(stageLog[j][1]) - 1), "done")
    /\ Len(passed) <= 1
    /\ \A i \in 1..Len(passed) :
          /\ Happened("Reconciled", "done")
          /\ passed[i].img_map = img_map
          /\ passed[i].ome = ome
    /\ \A j \in 1..Len(stageLog) : stageLog[j][2] = "raised" => j = Len(stageLog)
    /\ FailedImports # {} =>
          /\ ~Happened("Imported", "done")
          /\ ~Happened("Reconciled", "start")
          /\ ~Happened("Materialized", "start")

(***************************************************************************)
(* Reconciliation inside the unpack.                                       *)
(***************************************************************************)
RECURSIVE IdsUnder(_, _)
\* the identifier lists of the keys of d that normalize to join key j, joined
IdsUnder(d, j) ==
    IF d = <<>> THEN <<>>
    ELSE (IF NormKey(Head(d).k) = j THEN Head(d).v ELSE <<>>) \o IdsUnder(Tail(d), j)

JoinKeysOf(d) == {NormKey(d[i].k) : i \in 1..Len(d)}

Min(a, b) == IF a <= b THEN a ELSE b

\* every source image identifier is declared by one sentinel entry only
UniqueSourceIds ==
    \A i, j \in 1..Len(ome0.structured_annotations) :
        LET a == ome0.structured_annotations[i]
            b == ome0.structured_annotations[j]
        IN  (i # j /\ IdInt(a.id) < 0 /\ IdInt(b.id) < 0)
                => IdInt(a.namespace) # IdInt(b.namespace)

\* C2: for every join key of both maps with as many identifiers on each side,
\* the i-th smallest source identifier s of the join key is mapped as
\* "Image:<s>" to the i-th smallest destination identifier of the join key,
\* also when several keys of one map normalize to the join key.
C2_PositionalPairing ==
    (Happened("Reconciled", "done") /\ UniqueSourceIds) =>
        \A j \in JoinKeysOf(src_img_map) \cap JoinKeysOf(dest_map) :
            LET S == Sorted(IdsUnder(src_img_map, j))
                D == Sorted(IdsUnder(dest_map, j))
            IN  Len(S) = Len(D) =>
                    \A i \in 1..Len(S) :
                        /\ <<"Image", S[i]>> \in DOMAIN img_map
                        /\ img_map[<<"Image", S[i]>>] = D[i]

\* C3: _make_image_map never raises on a key or length mismatch: it returns an
\* identity map in which a source key without destination key has no entries
\* and a matched key has pairs up to the shorter of its two lists.
C3_NeverRaises ==
    (Happened("Reconciled", "start") /\ FailedImports = {}) =>
        /\ ~Happened("Reconciled", "raised")
        /\ Happened("Reconciled", "done")
        /\ DOMAIN img_map =
              UNION { { <<"Image", IdsUnder(src_img_map, j)[i]>> :
                          i \in 1..Min(Len(IdsUnder(src_img_map, j)),
                                       Len(IdsUnder(dest_map, j))) } :
                      j \in JoinKeysOf(src_img_map) }

(***************************************************************************)
(* pack and the session.                                                   *)
(***************************************************************************)
UnsupportedRoot == cmd = "pack" /\ sessionOpened /\ object \notin {"Project", "Dataset", "Image"}

\* C8 as stated: with a root object that is not a Project, Dataset or Image,
\* pack fails with UnsupportedRootKind, and no staging directory is created,
\* the repository list is not queried, the serializer is not invoked, no file
\* is copied and no archive is written.
C8_FailsUnsupportedRootKind ==
    UnsupportedRoot =>
        /\ io = NoIO
        /\ pc \in {"finally", "done"} =>
              /\ outcome = "raised"
              /\ error = "UnsupportedRootKind"

\* C8 as amended: with a root object that is not a Project, Dataset or Image,
\* pack raises nothing: it returns normally, and no staging directory is
\* created, the repository list is not queried, the serializer is not invoked,
\* no file is copied and no archive is written.
C8_ReturnsBeforeIO ==
    UnsupportedRoot =>
        /\ io = NoIO
        /\ pc \in {"finally", "done"} =>
              /\ outcome = "returned"
              /\ error = "none"

C8_Witness == UnsupportedRoot /\ pc = "done" /\ object = "Screen"

Hits(k) == {i \in 1..Len(k) : OccursAt(k, Marker, i)}

MaxOf(S) == CHOOSE x \in S : \A y \in S : y <= x

Suffix(k, i) == SubSeq(k, i + Len(Marker), Len(k))

\* the suffix after the last occurrence of the marker
SuffixAfterLast(k) == Suffix(k, MaxOf(Hits(k)))

NoOverlap(k) == \A a, b \in Hits(k) : a < b => a + Len(Marker) <= b

\* the occurrences matched from the left, each search starting behind the
\* previous match
RECURSIVE Matched(_, _)
Matched(k, from) ==
    IF \A i \in Hits(k) : i < from THEN {}
    ELSE LET m == CHOOSE i \in Hits(k) : i >= from /\ \A h \in Hits(k) : h >= from => i <= h
         IN  {m} \cup Matched(k, m + Len(Marker))

SrcKey == rsrc[1].k
DstKey == rdst[1].k
SrcJoin == rout.src_dict[1].k
DstJoin == rout.dest_dict[1].k

Paired ==
    /\ ~rout.raised
    /\ DOMAIN rout.imgmap = {<<"Image", rsrc[1].v[1]>>}
    /\ rout.imgmap[<<"Image", rsrc[1].v[1]>>] = rdst[1].v[1]

\* C4 as stated: every key is normalized to the suffix after the last
\* occurrence of the marker, and "/repo/2020/01/img.tif" and
\* "/staging/./img.tif" both normalize to "img.tif" and are paired.
C4_SuffixAfterLastMarker ==
    rk = "done" =>
        /\ Hits(SrcKey) # {} => SrcJoin = SuffixAfterLast(SrcKey)
        /\ Hits(DstKey) # {} => DstJoin = SuffixAfterLast(DstKey)
        /\ (SrcKey = RepoKey /\ DstKey = StagingKey) =>
              /\ SrcJoin = ImgTif
              /\ DstJoin = ImgTif
              /\ Paired

JoinKeyOf(k, j) ==
    /\ Hits(k) = {} => j = k
    /\ (Hits(k) # {} /\ NoOverlap(k)) => j = SuffixAfterLast(k)
    /\ Hits(k) # {} => j = Suffix(k, MaxOf(Matched(k, 1)))
    /\ Hits(j) = {}

\* C4 as amended: a key without marker is its own join key; a key whose marker
\* occurrences do not overlap normalizes to the suffix after the last
\* occurrence, and any key to the suffix after the last of the occurrences
\* matched left to right without overlap; the two keys are paired exactly when
\* their join keys are equal.  "/repo/./img.tif" and "/staging/./img.tif" both
\* normalize to "img.tif" and are paired; "/repo/2020/01/img.tif" normalizes
\* to itself and is not paired with "/staging/./img.tif".
C4_SplitLastPiece ==
    rk = "done" =>
        /\ JoinKeyOf(SrcKey, SrcJoin)
        /\ JoinKeyOf(DstKey, DstJoin)
        /\ Paired <=> SrcJoin = DstJoin
        /\ (SrcKey = MarkedRepoKey /\ DstKey = StagingKey) =>
              /\ SrcJoin = ImgTif
              /\ DstJoin = ImgTif
              /\ Paired
        /\ SrcKey = RepoKey => (SrcJoin = RepoKey /\ ~Paired)

C4_Witness ==
    /\ rk = "done"
    /\ SrcKey = MarkedRepoKey
    /\ DstKey = StagingKey
    /\ Paired

====
